---------------------------- MODULE Spec2Model ----------------------------
(***************************************************************************)
(* Byte-level model of xeno_lvb.py: the LVB container decoder.             *)
(*                                                                         *)
(* A byte is a natural number in 0..255 and a buffer is a sequence of      *)
(* bytes (1-based in TLA+, 0-based in Python: byte k of Python is          *)
(* element k+1 here).  Lvb.__init__ is modelled statement group by         *)
(* statement group: the header read, one iteration of the section walk,    *)
(* the location of the special sections, one iteration of the resolve      *)
(* loop, one iteration of the debug overlay, and the final assignments.    *)
(* A Python exception ends construction in pc = "error" with its type in   *)
(* exc.                                                                    *)
(***************************************************************************)
EXTENDS Integers, Sequences, FiniteSets, TLC

VARIABLES
    data,              \* Lvb.__init__'s local `data` (input, then data[32:file_size])
    ext,               \* the extension registry behind ext.get_ext_mapper
    pc,                \* position in Lvb.__init__ / the constructed object
    exc,               \* type of the exception that ended construction, or "none"
    file_size,         \* local file_size
    version,           \* self._version
    start,             \* local start of the section walk
    sections,          \* local sections: the Section objects, in walk order
    walked,            \* history: the value of start each Section was built at
    si, ei,            \* positions of the loops at lines 218 and 222
    di,                \* position of the loop at line 236
    gimmick_map,       \* local gimmick_map (a dict, in insertion order)
    gimmick_bdat_map,  \* local gimmick_bdat_map
    result             \* the last query made on the finished Lvb

vars == <<data, ext, pc, exc, file_size, version, start, sections, walked,
          si, ei, di, gimmick_map, gimmick_bdat_map, result>>

---------------------------------------------------------------------------
(* Bounds of the model. *)

\* The section walk is cut after this many Sections (a size-0 section
\* otherwise appends Sections for ever).
MaxSections == 6
\* Info base indices of the generated gimmick sections range over 0..MaxBase.
MaxBase == 2

---------------------------------------------------------------------------
(* Python values. *)

\* Python's None.
None == [kind |-> "None"]

\* SPECIAL_MAGIC and the magic tags, as bytes.
INFO == <<73, 78, 70, 79>>
XFRM == <<88, 70, 82, 77>>
DEBI == <<68, 69, 66, 73>>
STRG == <<83, 84, 82, 71>>
SPECIAL_MAGIC == {INFO, XFRM, DEBI, STRG}

\* The signature asserted at the head of the file: b"LVLB".
LVLB == <<76, 86, 76, 66>>

Min(a, b) == IF a < b THEN a ELSE b

\* Python's s[a:b] for 0 <= a, 0 <= b: clamped to the buffer, empty if a >= b.
Slice(s, a, b) == SubSeq(s, a + 1, Min(b, Len(s)))

\* Python's s[a:] for 0 <= a.
SliceFrom(s, a) == SubSeq(s, a + 1, Len(s))

\* What struct.unpack raises as: the sentinel of u16 / u32 on a short buffer.
StructError == -1

\* u16(data): struct.unpack('<H', data[0:2])[0].
u16(d) ==
    IF Len(d) < 2 THEN StructError
    ELSE d[1] + 256 * d[2]

\* u32(data): struct.unpack('<I', data[0:4])[0].
u32(d) ==
    IF Len(d) < 4 THEN StructError
    ELSE d[1] + 256 * d[2] + 65536 * d[3] + 16777216 * d[4]

\* f32(data): struct.unpack('<f', data[0:4])[0].  The float is named by the
\* 32-bit pattern struct.pack('<f', value) gives back for it: the pattern
\* read, except that a signalling NaN (exponent bits all ones, fraction not
\* zero, top fraction bit clear) comes out quiet, with that bit set.
f32(d) ==
    LET p == u32(d)
        fraction == p % 8388608
        exponent == (p \div 8388608) % 256
    IN  IF p = StructError THEN StructError
        ELSE IF exponent = 255 /\ fraction # 0 /\ fraction < 4194304
        THEN p + 4194304
        ELSE p

---------------------------------------------------------------------------
(* Payload decoders.  Each returns the decoded object, or a record of kind *)
(* "raise" with the exception type.                                        *)

Raise(e) == [kind |-> "raise", exc |-> e]
Raised(v) == v.kind = "raise"

\* class Info
Info(entry) ==
    LET bdat_id == u32(entry)
        xfrm_idx == u32(SliceFrom(entry, 4))
        shape == u16(SliceFrom(entry, 8))
        sequential_id == u16(SliceFrom(entry, 10))
        hash_id == u32(SliceFrom(entry, 12))
    IN  IF StructError \in {bdat_id, xfrm_idx, shape, sequential_id, hash_id}
        THEN Raise("struct.error")
        ELSE [kind |-> "Info", bdat_id |-> bdat_id, xfrm_idx |-> xfrm_idx,
              shape |-> shape, sequential_id |-> sequential_id,
              hash_id |-> hash_id]

\* class InfoLegacy
InfoLegacy(entry) ==
    LET name_id == u32(entry)
        xfrm_idx == u32(SliceFrom(entry, 8))
        shape == u32(SliceFrom(entry, 12))
    IN  IF StructError \in {name_id, xfrm_idx, shape}
        THEN Raise("struct.error")
        ELSE [kind |-> "InfoLegacy", name_id |-> name_id,
              xfrm_idx |-> xfrm_idx, shape |-> shape]

\* class Xform
Xform(entry) ==
    LET matrix == [k \in 1..16 |-> f32(SliceFrom(entry, 4 * (k - 1)))]
    IN  IF \E k \in 1..16 : matrix[k] = StructError
        THEN Raise("struct.error")
        ELSE [kind |-> "Xform", matrix |-> matrix]

\* class Strings (the constructor)
Strings(entry) == [kind |-> "Strings", buf |-> entry]

\* Mutant of Debug: string_id read from the type_id field.
Debug_string_id_at_4(entry) ==
    LET gimmick_id == u32(entry)
        type_id == u32(SliceFrom(entry, 4))
        string_id == u32(SliceFrom(entry, 4))
        parent_id == u32(SliceFrom(entry, 12))
    IN  IF StructError \in {gimmick_id, type_id, string_id, parent_id}
        THEN Raise("struct.error")
        ELSE [kind |-> "Debug", gimmick_id |-> gimmick_id, type_id |-> type_id,
              string_id |-> string_id, parent_id |-> parent_id]

\* class Debug
Debug(entry) ==
    LET gimmick_id == u32(entry)
        type_id == u32(SliceFrom(entry, 4))
        string_id == u32(SliceFrom(entry, 8))
        parent_id == u32(SliceFrom(entry, 12))
    IN  IF StructError \in {gimmick_id, type_id, string_id, parent_id}
        THEN Raise("struct.error")
        ELSE [kind |-> "Debug", gimmick_id |-> gimmick_id, type_id |-> type_id,
              string_id |-> string_id, parent_id |-> parent_id]

\* class Default
Default(entry) == [kind |-> "Default", data |-> entry]

\* A decoder supplied by an extension module: it keeps the slice it is given.
ExtPayload(name, entry) == [kind |-> "Ext", decoder |-> name, data |-> entry]

---------------------------------------------------------------------------
(* Strings.read *)

\* bytes.index(0): the 0-based position of the first zero byte, -1 if none
\* (Python raises ValueError).
IndexOfZero(d) ==
    IF \E k \in 1..Len(d) : d[k] = 0
    THEN (CHOOSE k \in 1..Len(d) : d[k] = 0 /\ \A j \in 1..(k - 1) : d[j] # 0) - 1
    ELSE -1

IsCont(d, k) == k <= Len(d) /\ d[k] >= 128 /\ d[k] <= 191

\* Length of the UTF-8 sequence that starts at d[k], 0 if it is ill-formed
\* (strict UTF-8: no overlong forms, no surrogates, nothing above U+10FFFF).
Utf8Len(d, k) ==
    LET b == d[k]
        b2 == IF k + 1 <= Len(d) THEN d[k + 1] ELSE 0
    IN  IF b < 128 THEN 1
        ELSE IF b >= 194 /\ b <= 223
        THEN IF IsCont(d, k + 1) THEN 2 ELSE 0
        ELSE IF b >= 224 /\ b <= 239
        THEN IF /\ IsCont(d, k + 1) /\ IsCont(d, k + 2)
                /\ (b = 224 => b2 >= 160)
                /\ (b = 237 => b2 <= 159)
             THEN 3 ELSE 0
        ELSE IF b >= 240 /\ b <= 244
        THEN IF /\ IsCont(d, k + 1) /\ IsCont(d, k + 2) /\ IsCont(d, k + 3)
                /\ (b = 240 => b2 >= 144)
                /\ (b = 244 => b2 <= 143)
             THEN 4 ELSE 0
        ELSE 0

\* The code point encoded by the well-formed sequence of length n at d[k].
Utf8CodePoint(d, k, n) ==
    IF n = 1 THEN d[k]
    ELSE IF n = 2 THEN (d[k] - 192) * 64 + (d[k + 1] - 128)
    ELSE IF n = 3
    THEN (d[k] - 224) * 4096 + (d[k + 1] - 128) * 64 + (d[k + 2] - 128)
    ELSE (d[k] - 240) * 262144 + (d[k + 1] - 128) * 4096
         + (d[k + 2] - 128) * 64 + (d[k + 3] - 128)

\* bytes.decode('utf-8') from d[k] on: the code points, or <<-1>> appended
\* where the decoder raises UnicodeDecodeError.
RECURSIVE Utf8From(_, _)
Utf8From(d, k) ==
    IF k > Len(d) THEN <<>>
    ELSE LET n == Utf8Len(d, k)
         IN  IF n = 0 THEN <<-1>>
             ELSE <<Utf8CodePoint(d, k, n)>> \o Utf8From(d, k + n)

\* A Python str: its code points.
Str(cps) == [kind |-> "str", val |-> cps]

\* bytes.decode('utf-8')
decode_utf8(d) ==
    LET cps == Utf8From(d, 1)
    IN  IF \E k \in 1..Len(cps) : cps[k] = -1
        THEN Raise("UnicodeDecodeError")
        ELSE Str(cps)

\* Strings.read(self, offset), self being the Strings payload s.
read(s, offset) ==
    LET d == SliceFrom(s.buf, offset)
        len == IndexOfZero(d)
    IN  IF len = -1 THEN Raise("ValueError")
        ELSE decode_utf8(Slice(d, 0, len))

---------------------------------------------------------------------------
(* The mapper registry. *)

\* ext.get_ext_mapper(magic, xc3): the decoder an extension registered for
\* (magic, xc3), or None.
get_ext_mapper(magic, xc3) ==
    IF <<magic, xc3>> \in DOMAIN ext THEN ext[<<magic, xc3>>] ELSE "None"

\* Mutant of mapper_registry: the extension registry is asked first.
mapper_registry_ext_first(magic, xc3) ==
    LET e == get_ext_mapper(magic, xc3)
    IN  IF e # "None" THEN e
        ELSE IF magic = INFO THEN (IF xc3 THEN "Info" ELSE "InfoLegacy")
        ELSE IF magic = XFRM THEN "Xform"
        ELSE IF magic = DEBI THEN "Debug"
        ELSE IF magic = STRG THEN "Strings"
        ELSE "Default"

\* mapper_registry(magic, xc3): the name of the decoder class.  The call of
\* ext_import(xc3) at line 59 imports the extension modules, which register
\* their decoders; ext is the registry with those registrations made.
mapper_registry(magic, xc3) ==
    LET registry == [m \in SPECIAL_MAGIC |->
                        IF m = INFO THEN (IF xc3 THEN "Info" ELSE "InfoLegacy")
                        ELSE IF m = XFRM THEN "Xform"
                        ELSE IF m = DEBI THEN "Debug"
                        ELSE "Strings"]
    IN  IF magic \in DOMAIN registry
        THEN registry[magic]
        ELSE LET e == get_ext_mapper(magic, xc3)
             IN  IF e # "None" THEN e ELSE "Default"

\* mapper(entry): the call of the class mapper_registry returned.
Apply(mapper, entry) ==
    CASE mapper = "Info" -> Info(entry)
      [] mapper = "InfoLegacy" -> InfoLegacy(entry)
      [] mapper = "Xform" -> Xform(entry)
      [] mapper = "Debug" -> Debug(entry)
      [] mapper = "Strings" -> Strings(entry)
      [] mapper = "Default" -> Default(entry)
      [] OTHER -> ExtPayload(mapper, entry)

---------------------------------------------------------------------------
(* Section and Entry. *)

\* Entry.__init__
Entry(mapped) ==
    [kind |-> "Entry", mapped |-> mapped, info |-> None, xfrm |-> None,
     name |-> None]

\* Section.__init__(data, xc3, start): the Section, or the raised exception.
Section(d, xc3, st) ==
    LET magic == Slice(d, st, st + 4)
        mapper == mapper_registry(magic, xc3)
        size == u32(SliceFrom(d, st + 4))
        ver == u32(SliceFrom(d, st + 8))
        count == u32(SliceFrom(d, st + 12))
        entry_size == u32(SliceFrom(d, st + 16))
        info_idx == u32(SliceFrom(d, st + 20))
        entry_start == st + 32
    IN  IF StructError \in {size, ver, count, entry_size, info_idx}
        THEN Raise("struct.error")
        ELSE LET mapped ==
                   IF magic # STRG
                   THEN [k \in 1..count |->
                           Apply(mapper, Slice(d, entry_start + (k - 1) * entry_size,
                                               entry_start + k * entry_size))]
                   ELSE <<Apply(mapper, Slice(d, entry_start, st + size))>>
             IN  IF \E k \in 1..Len(mapped) : Raised(mapped[k])
                 THEN Raise("struct.error")
                 ELSE [kind |-> "Section", magic |-> magic, size |-> size,
                       version |-> ver, info_idx |-> info_idx, mapper |-> mapper,
                       entries |-> [k \in 1..Len(mapped) |-> Entry(mapped[k])]]

\* Mutant of size: the declared size taken for the size of the body alone.
size_without_header(s) == s.size + 32

\* Section.size(self)
size(s) == s.size

\* Section.magic(self)
magic(s) == s.magic

\* Entry.dyn_cast(self)
dyn_cast(e) == e.mapped

\* Mutant of entry: an index past the end wraps around.
entry_wrap(s, i) ==
    IF Len(s.entries) = 0 THEN Raise("IndexError")
    ELSE s.entries[(i % Len(s.entries)) + 1]

\* Section.entry(self, i), self being s: the Entry, IndexError past the end
\* (i is never negative: it is a sum of u32 values).
entry(s, i) ==
    IF i < Len(s.entries) THEN s.entries[i + 1] ELSE Raise("IndexError")

\* next(filter(lambda s: s.magic() == magic, sections)): the position of
\* the first Section with that magic, 0 when there is none.
FirstWithMagic(secs, m) ==
    IF \E k \in 1..Len(secs) : magic(secs[k]) = m
    THEN CHOOSE k \in 1..Len(secs) :
            magic(secs[k]) = m /\ \A j \in 1..(k - 1) : magic(secs[j]) # m
    ELSE 0

---------------------------------------------------------------------------
(* Python dicts, as the sequence of their items in insertion order.  A key *)
(* is an int (a hash id, a bdat id) or a str (a name).                     *)

IntKey(n) == [kind |-> "int", val |-> n]

KeyEq(a, b) == a.kind = b.kind /\ a.val = b.val

\* d.get(k): the value stored under k, or None.
DictGet(d, k) ==
    IF \E j \in 1..Len(d) : KeyEq(d[j].key, k)
    THEN d[CHOOSE j \in 1..Len(d) : KeyEq(d[j].key, k)].value
    ELSE None

\* Mutant of DictSet: a key already present keeps its first value.
DictSet_keep_first(d, k, v) ==
    IF \E j \in 1..Len(d) : KeyEq(d[j].key, k)
    THEN d
    ELSE Append(d, [key |-> k, value |-> v])

\* d[k] = v
DictSet(d, k, v) ==
    IF \E j \in 1..Len(d) : KeyEq(d[j].key, k)
    THEN [j \in 1..Len(d) |->
            IF KeyEq(d[j].key, k) THEN [key |-> k, value |-> v] ELSE d[j]]
    ELSE Append(d, [key |-> k, value |-> v])

\* An Entry object, named by its place: Section sec of the walk, position
\* pos (0-based) of its entry list.
Ref(sec, pos) == [kind |-> "ref", sec |-> sec, pos |-> pos]

---------------------------------------------------------------------------
(* Lvb.__init__ *)

\* xc3 = self._version >= 5
xc3 == version >= 5

\* The locals info, xfrm, debi (positions in sections, 0 when the filter
\* is empty) and strings (the Strings payload of the STRG section).
info == FirstWithMagic(sections, INFO)
xfrm == FirstWithMagic(sections, XFRM)
debi == FirstWithMagic(sections, DEBI)
strings == dyn_cast(entry(sections[FirstWithMagic(sections, STRG)], 0))

\* Mutant of walk_continues: the limit itself is walked too.
walk_continues_inclusive == start <= file_size - 32

\* The loop condition of the section walk (line 205).
walk_continues == start < file_size - 32

\* Mutant of InfoIndex: the section's info base index is ignored.
InfoIndex_no_base(base, i) == i

\* The index into the INFO section's entries at line 223: base + i.
InfoIndex(base, i) == base + i

Fail(e) == pc' = "error" /\ exc' = e

\* Lines 192-201: the signature, the header fields, the window, start = 0.
ReadHeader ==
    /\ pc = "start"
    /\ LET fs == u32(Slice(data, 4, 8))
           ver == u32(Slice(data, 8, 12))
           unk_hash == u32(Slice(data, 12, 16))
       IN  IF Slice(data, 0, 4) # LVLB
           THEN /\ Fail("AssertionError")
                /\ UNCHANGED <<data, file_size, version>>
           ELSE IF StructError \in {fs, ver, unk_hash}
           THEN /\ Fail("struct.error")
                /\ UNCHANGED data
                /\ file_size' = (IF fs = StructError THEN file_size ELSE fs)
                /\ version' = (IF StructError \in {fs, ver} THEN version ELSE ver)
           ELSE /\ pc' = "walk"
                /\ file_size' = fs
                /\ version' = ver
                /\ data' = Slice(data, 32, fs)
                /\ UNCHANGED exc
    /\ UNCHANGED <<ext, start, sections, walked, si, ei, di, gimmick_map,
                   gimmick_bdat_map, result>>

\* Lines 205-208: one iteration of the section walk.
WalkStep ==
    /\ pc = "walk"
    /\ walk_continues
    /\ Len(sections) < MaxSections
    /\ LET section == Section(data, xc3, start)
       IN  IF Raised(section)
           THEN /\ Fail(section.exc)
                /\ UNCHANGED <<start, sections, walked>>
           ELSE /\ sections' = Append(sections, section)
                /\ walked' = Append(walked, start)
                /\ start' = start + size(section)
                /\ UNCHANGED <<pc, exc>>
    /\ UNCHANGED <<data, ext, file_size, version, si, ei, di, gimmick_map,
                   gimmick_bdat_map, result>>

\* Mutant of Locate: the DEBI section is required like the other three.
Locate_debi_required ==
    /\ pc = "walk"
    /\ ~walk_continues
    /\ IF info = 0 \/ xfrm = 0 \/ debi = 0
          \/ FirstWithMagic(sections, STRG) = 0
       THEN Fail("StopIteration")
       ELSE pc' = "resolve" /\ UNCHANGED exc
    /\ UNCHANGED <<data, ext, file_size, version, start, sections, walked,
                   si, ei, di, gimmick_map, gimmick_bdat_map, result>>

\* Lines 210-216: the walk is over; find the special sections.
Locate ==
    /\ pc = "walk"
    /\ ~walk_continues
    /\ IF info = 0 \/ xfrm = 0 \/ FirstWithMagic(sections, STRG) = 0
       THEN Fail("StopIteration")
       ELSE pc' = "resolve" /\ UNCHANGED exc
    /\ UNCHANGED <<data, ext, file_size, version, start, sections, walked,
                   si, ei, di, gimmick_map, gimmick_bdat_map, result>>

\* The Entry ref names, with field f set to v.
SetField(secs, ref, f, v) ==
    [secs EXCEPT ![ref.sec].entries[ref.pos + 1] =
        [@ EXCEPT ![f] = v]]

\* Lines 222-232: the loop body for entry ei of the non-special section si.
ResolveEntry ==
    /\ pc = "resolve"
    /\ si <= Len(sections)
    /\ magic(sections[si]) \notin SPECIAL_MAGIC
    /\ ei < Len(sections[si].entries)
    /\ LET base == sections[si].info_idx
           me == Ref(si, ei)
           i == entry(sections[info], InfoIndex(base, ei))
           x == entry(sections[xfrm], dyn_cast(i).xfrm_idx)
           s1 == SetField(sections, me, "info", dyn_cast(i))
           s2 == SetField(s1, me, "xfrm", dyn_cast(x))
           name == read(strings, dyn_cast(i).name_id)
       IN  IF Raised(i)
           THEN /\ Fail(i.exc)
                /\ UNCHANGED <<sections, gimmick_map, gimmick_bdat_map, ei>>
           ELSE IF Raised(x)
           THEN /\ Fail(x.exc)
                /\ sections' = s1
                /\ UNCHANGED <<gimmick_map, gimmick_bdat_map, ei>>
           ELSE IF xc3
           THEN /\ sections' = s2
                /\ gimmick_map' =
                      DictSet(gimmick_map, IntKey(dyn_cast(i).hash_id), me)
                /\ gimmick_bdat_map' =
                      DictSet(gimmick_bdat_map, IntKey(dyn_cast(i).bdat_id), me)
                /\ ei' = ei + 1
                /\ UNCHANGED <<pc, exc>>
           ELSE IF Raised(name)
           THEN /\ Fail(name.exc)
                /\ sections' = s2
                /\ UNCHANGED <<gimmick_map, gimmick_bdat_map, ei>>
           ELSE /\ sections' = SetField(s2, me, "name", name)
                /\ gimmick_map' = DictSet(gimmick_map, name, me)
                /\ ei' = ei + 1
                /\ UNCHANGED <<pc, exc, gimmick_bdat_map>>
    /\ UNCHANGED <<data, ext, file_size, version, start, walked, si, di,
                   result>>

\* Lines 218-222: a special section, or the end of a section's entries:
\* on to the next section.
ResolveNextSection ==
    /\ pc = "resolve"
    /\ si <= Len(sections)
    /\ IF magic(sections[si]) \in SPECIAL_MAGIC
       THEN TRUE
       ELSE ei >= Len(sections[si].entries)
    /\ si' = si + 1
    /\ ei' = 0
    /\ UNCHANGED <<data, ext, pc, exc, file_size, version, start, sections,
                   walked, di, gimmick_map, gimmick_bdat_map, result>>

\* Line 218: the loop over the sections is over.
ResolveDone ==
    /\ pc = "resolve"
    /\ si > Len(sections)
    /\ pc' = "debug"
    /\ UNCHANGED <<data, ext, exc, file_size, version, start, sections,
                   walked, si, ei, di, gimmick_map, gimmick_bdat_map, result>>

\* Lines 235-241: the loop body for Debug record di.
DebugEntry ==
    /\ pc = "debug"
    /\ xc3 /\ debi # 0
    /\ di < Len(sections[debi].entries)
    /\ LET d == dyn_cast(sections[debi].entries[di + 1])
           gimmick == DictGet(gimmick_map, IntKey(d.gimmick_id))
           name == read(strings, d.string_id)
       IN  IF gimmick.kind = "None"
           THEN /\ di' = di + 1
                /\ UNCHANGED <<pc, exc, sections>>
           ELSE IF Raised(name)
           THEN /\ Fail(name.exc)
                /\ UNCHANGED <<sections, di>>
           ELSE /\ sections' = SetField(sections, gimmick, "name", name)
                /\ di' = di + 1
                /\ UNCHANGED <<pc, exc>>
    /\ UNCHANGED <<data, ext, file_size, version, start, walked, si, ei,
                   gimmick_map, gimmick_bdat_map, result>>

\* Lines 244-246: the object's fields are set; construction returns.
Finish ==
    /\ pc = "debug"
    /\ IF xc3 /\ debi # 0 THEN di >= Len(sections[debi].entries) ELSE TRUE
    /\ pc' = "done"
    /\ UNCHANGED <<data, ext, exc, file_size, version, start, sections,
                   walked, si, ei, di, gimmick_map, gimmick_bdat_map, result>>

---------------------------------------------------------------------------
(* The finished Lvb. *)

\* self._sections: the positions (in walk order) of the non-special Sections.
self_sections ==
    {k \in 1..Len(sections) : magic(sections[k]) \notin SPECIAL_MAGIC}

\* Lvb.gimmick(gimmick_id)
gimmick(gimmick_id) == DictGet(gimmick_map, gimmick_id)

\* Lvb.bdat_gimmick(bdat_id)
bdat_gimmick(bdat_id) == DictGet(gimmick_bdat_map, bdat_id)

---------------------------------------------------------------------------
(* Input buffers: files laid out as section 6 of the format describes,     *)
(* and malformed variants of them.                                         *)

le16(n) == <<n % 256, (n \div 256) % 256>>

le32(n) ==
    <<n % 256, (n \div 256) % 256, (n \div 65536) % 256, (n \div 16777216) % 256>>

Zeros(n) == [k \in 1..n |-> 0]

RECURSIVE Concat(_)
Concat(ss) == IF ss = <<>> THEN <<>> ELSE Head(ss) \o Concat(Tail(ss))

\* The 32-byte file header.
FileHeader(sz, ver) ==
    LVLB \o le32(sz) \o le32(ver) \o le32(0) \o Zeros(16)

\* A 32-byte section header.
SectionHeader(m, sz, count, entry_size, info_idx) ==
    m \o le32(sz) \o le32(1) \o le32(count) \o le32(entry_size)
          \o le32(info_idx) \o Zeros(8)

\* A section whose declared size is its header, its body and pad more bytes.
Sec(m, count, entry_size, info_idx, body, pad) ==
    SectionHeader(m, 32 + Len(body) + pad, count, entry_size, info_idx)
        \o body \o Zeros(pad)

\* A file whose declared total size is its length.
File(ver, secs) ==
    LET body == Concat(secs)
    IN  FileHeader(32 + Len(body), ver) \o body

\* Entry layouts.
InfoRecord(bdat_id, xfrm_idx, shape, sequential_id, hash_id) ==
    le32(bdat_id) \o le32(xfrm_idx) \o le16(shape) \o le16(sequential_id)
                  \o le32(hash_id)

InfoLegacyRecord(name_id, xfrm_idx, shape) ==
    le32(name_id) \o Zeros(4) \o le32(xfrm_idx) \o le32(shape)

\* A matrix whose first and last cells carry the tag; three cells hold a
\* signalling NaN (00 00 A0 7F), a quiet NaN and an infinity.
XformRecord(tag) ==
    le32(tag) \o <<0, 0, 160, 127>> \o <<1, 0, 192, 127>> \o <<0, 0, 128, 127>>
              \o Zeros(44) \o le32(tag + 1)

DebugRecord(gimmick_id, type_id, string_id, parent_id) ==
    le32(gimmick_id) \o le32(type_id) \o le32(string_id) \o le32(parent_id)

\* Magic tags of two gimmick sections.
ENMY == <<69, 78, 77, 89>>
ITEM == <<73, 84, 69, 77>>

\* Three hash ids.
Hashes == <<4660, 70196, 39612>>

\* String blobs.  BlobA is "ab" 00 "e-acute" 00: offset 0 reads "ab", 1 "b",
\* 3 the two-byte e-acute, 4 a lone continuation byte, 5 "", 6 is past the
\* end.  BlobB is "ab" 00 "cd" with no terminator after offset 3.
BlobA == <<97, 98, 0, 195, 169, 0>>
BlobB == <<97, 98, 0, 99, 100>>

XformSection == Sec(XFRM, 2, 64, 0, XformRecord(7) \o XformRecord(9), 0)

\* A gimmick section of count 4-byte entries.
GimmickSection(m, count, info_idx) ==
    Sec(m, count, 4, info_idx,
        Concat([k \in 1..count |-> le32(100 * m[1] + k)]), 0)

DebiSection(recs) ==
    Sec(DEBI, Len(recs), 16, 0,
        Concat([k \in 1..Len(recs) |->
                  DebugRecord(recs[k][1], 1, recs[k][2], 0)]), 0)

\* The Debug record lists tried: <<gimmick_id, string_id>> each.
DebiChoices ==
    { <<<<Hashes[1], 0>>>>,
      <<<<Hashes[1], 0>>, <<Hashes[1], 3>>>>,
      <<<<Hashes[3], 0>>>>,
      <<<<Hashes[3], 6>>, <<Hashes[2], 1>>>>,
      <<<<Hashes[2], 4>>>>,
      <<<<Hashes[2], 6>>>> }

Optional(present, sec) == IF present THEN <<sec>> ELSE <<>>

\* Modern-format files: INFO (two records), XFRM (two records), a gimmick
\* section, optionally a second one that shares Info record 0, optionally
\* DEBI, and STRG.
ModernFiles ==
    { File(5, <<Sec(INFO, 2, 16, 0,
                    InfoRecord(0, 0, 1, 0, Hashes[1])
                      \o InfoRecord(id, x, 2, 1, h), 0),
                XformSection,
                GimmickSection(ENMY, count, base)>>
               \o Optional(item, GimmickSection(ITEM, 1, 0))
               \o Optional(dc # <<>>, DebiSection(dc))
               \o <<Sec(STRG, 0, 0, 0, BlobA, 2)>>) :
        id \in {0, 3}, x \in {1, 2}, h \in {Hashes[1], Hashes[2]},
        count \in {1, 2}, base \in 0..MaxBase, item \in BOOLEAN,
        dc \in DebiChoices \cup {<<>>} }

\* Legacy-format files of the same shape; the name ids are blob offsets.
LegacyFiles ==
    { File(4, <<Sec(INFO, 2, 16, 0,
                    InfoLegacyRecord(0, 0, 1)
                      \o InfoLegacyRecord(id, x, 2), 0),
                XformSection,
                GimmickSection(ENMY, count, base)>>
               \o Optional(item, GimmickSection(ITEM, 1, 0))
               \o Optional(dc # <<>>, DebiSection(dc))
               \o <<Sec(STRG, 0, 0, 0, blob, 0)>>) :
        id \in {0, 1, 3, 4, 6}, x \in {1, 2},
        count \in {1, 2}, base \in 0..MaxBase, item \in BOOLEAN,
        dc \in {<<>>, <<<<Hashes[1], 0>>>>}, blob \in {BlobA, BlobB} }

\* Header-only files: the file header and, for each magic of the list, a
\* 32-byte section header with entryCount = 0 that declares a size of 32.
HeaderOnly(ver, magics) ==
    File(ver, [k \in 1..Len(magics) |-> Sec(magics[k], 0, 0, 0, <<>>, 0)])

\* The lists of n distinct special magics.
DistinctMagics(n) ==
    {m \in [1..n -> SPECIAL_MAGIC] : \A j, k \in 1..n : j # k => m[j] # m[k]}

HeaderOnlyFiles ==
    {HeaderOnly(ver, m) : ver \in {4, 5},
                          m \in DistinctMagics(2) \cup DistinctMagics(3)
                                  \cup DistinctMagics(4)}

\* Files the walker or a decoder stumbles on.
EdgeFiles ==
    { \* a wrong signature
      <<76, 86, 76, 67>> \o SliceFrom(HeaderOnly(5, <<INFO, XFRM, STRG>>), 4),
      \* a buffer that ends inside the file header
      LVLB \o le32(64) \o le32(5),
      \* a declared total size smaller than the file header
      FileHeader(16, 5),
      \* a declared total size larger than the buffer
      FileHeader(200, 5) \o Sec(INFO, 0, 0, 0, <<>>, 0),
      \* a section that declares a size of 0
      FileHeader(64, 5) \o SectionHeader(ENMY, 0, 0, 0, 0),
      FileHeader(96, 4) \o Sec(INFO, 0, 0, 0, <<>>, 0)
                        \o SectionHeader(XFRM, 0, 0, 0, 0),
      \* a last section that declares more than the rest of the file
      FileHeader(160, 5) \o Sec(INFO, 0, 0, 0, <<>>, 0)
                         \o Sec(XFRM, 0, 0, 0, <<>>, 0)
                         \o Sec(DEBI, 0, 0, 0, <<>>, 0)
                         \o SectionHeader(STRG, 300, 0, 0, 0),
      \* INFO records shorter than the Info layout
      File(5, <<Sec(INFO, 1, 8, 0, Zeros(8), 0), XformSection,
                Sec(STRG, 0, 0, 0, BlobA, 0)>>),
      \* Debug records shorter than the Debug layout
      File(5, <<Sec(INFO, 0, 0, 0, <<>>, 0), XformSection,
                Sec(DEBI, 1, 12, 0, Zeros(12), 0),
                Sec(STRG, 0, 0, 0, BlobA, 0)>>),
      \* two INFO sections, two STRG sections
      File(5, <<Sec(INFO, 1, 16, 0, InfoRecord(3, 1, 0, 0, Hashes[2]), 0),
                Sec(INFO, 1, 16, 0, InfoRecord(0, 0, 0, 0, Hashes[1]), 0),
                XformSection, GimmickSection(ENMY, 1, 0),
                DebiSection(<<<<Hashes[2], 3>>>>),
                Sec(STRG, 0, 0, 0, BlobA, 0)>>),
      File(4, <<Sec(STRG, 0, 0, 0, BlobB, 3),
                Sec(INFO, 1, 16, 0, InfoLegacyRecord(3, 1, 0), 0),
                XformSection, GimmickSection(ITEM, 1, 0),
                Sec(STRG, 0, 0, 0, BlobA, 0)>>) }

\* Files decoded under each extension registry: one gimmick section, and
\* header versions on both sides of the format boundary.
RegistryFiles ==
    { File(ver, <<Sec(INFO, 1, 16, 0,
                      IF ver >= 5 THEN InfoRecord(3, 1, 2, 1, Hashes[2])
                                  ELSE InfoLegacyRecord(3, 1, 2), 0),
                  XformSection,
                  GimmickSection(m, 1, 0),
                  DebiSection(<<<<Hashes[2], 0>>>>),
                  Sec(STRG, 0, 0, 0, BlobA, 0)>>) :
        ver \in {0, 3, 4, 5, 6}, m \in {ENMY, ITEM} }

\* Extension registries: none; a decoder for modern ENMY sections; decoders
\* for legacy ENMY sections and, by a rogue extension, for built-in magics.
ExtRegistries ==
    << [p \in {} |-> "None"],
       (<<ENMY, TRUE>> :> "Enemy"),
       (<<ENMY, FALSE>> :> "EnemyLegacy") @@ (<<INFO, TRUE>> :> "Rogue")
         @@ (<<INFO, FALSE>> :> "Rogue") @@ (<<STRG, TRUE>> :> "Rogue")
         @@ (<<XFRM, FALSE>> :> "Rogue") @@ (<<DEBI, TRUE>> :> "Rogue") >>

\* Keys the finished Lvb is queried with.
QueryInts == {0, 3, Hashes[1], Hashes[2], Hashes[3]}
QueryStrs == {<<97, 98>>, <<98>>, <<233>>, <<>>, <<99, 100>>}

---------------------------------------------------------------------------
(* The specification. *)

Init ==
    /\ \/ /\ data \in ModernFiles \cup LegacyFiles \cup HeaderOnlyFiles
                        \cup EdgeFiles
          /\ ext = ExtRegistries[1]
       \/ /\ data \in RegistryFiles
          /\ \E r \in 1..Len(ExtRegistries) : ext = ExtRegistries[r]
    /\ pc = "start"
    /\ exc = "none"
    /\ file_size = 0
    /\ version = 0
    /\ start = 0
    /\ sections = <<>>
    /\ walked = <<>>
    /\ si = 1
    /\ ei = 0
    /\ di = 0
    /\ gimmick_map = <<>>
    /\ gimmick_bdat_map = <<>>
    /\ result = None

\* A call of Lvb.gimmick on the finished object.
Gimmick ==
    /\ pc = "done"
    /\ \E k \in {IntKey(n) : n \in QueryInts} \cup {Str(n) : n \in QueryStrs} :
          result' = [kind |-> "gimmick", key |-> k, value |-> gimmick(k)]
    /\ UNCHANGED <<data, ext, pc, exc, file_size, version, start, sections,
                   walked, si, ei, di, gimmick_map, gimmick_bdat_map>>

\* A call of Lvb.bdat_gimmick on the finished object.
BdatGimmick ==
    /\ pc = "done"
    /\ \E k \in {IntKey(n) : n \in QueryInts} \cup {Str(n) : n \in QueryStrs} :
          result' = [kind |-> "bdat_gimmick", key |-> k,
                     value |-> bdat_gimmick(k)]
    /\ UNCHANGED <<data, ext, pc, exc, file_size, version, start, sections,
                   walked, si, ei, di, gimmick_map, gimmick_bdat_map>>

Next ==
    \/ ReadHeader
    \/ WalkStep
    \/ Locate
    \/ ResolveEntry
    \/ ResolveNextSection
    \/ ResolveDone
    \/ DebugEntry
    \/ Finish
    \/ Gimmick
    \/ BdatGimmick

Spec == Init /\ [][Next]_vars

---------------------------------------------------------------------------
(* Properties.  The file is read here as section 6 of the format lays it   *)
(* out; after ReadHeader `data` is the window behind the 32-byte header.   *)

Constructed == pc = "done"

\* The non-special Entries of the decoded file, as refs.
GimmickEntries ==
    UNION {{Ref(s, p) : p \in 0..(Len(sections[s].entries) - 1)} :
             s \in self_sections}

\* The Entries of the special sections, as refs.
SpecialEntries ==
    UNION {{Ref(s, p) : p \in 0..(Len(sections[s].entries) - 1)} :
             s \in (1..Len(sections)) \ self_sections}

EntryAt(ref) == sections[ref.sec].entries[ref.pos + 1]

\* C1: after construction succeeds, the Entry at position i of a
\* non-special section has its info back-link equal to the payload of
\* INFO.entries[section.infoBaseIndex + i] and its transform back-link equal
\* to the payload of XFRM.entries[that payload's transform index]; the
\* Entries of the four special sections keep both back-links unset.
C1_BackLinks ==
    Constructed =>
        /\ \A r \in GimmickEntries :
              LET n == sections[r.sec].info_idx + r.pos
                  e == EntryAt(r)
              IN  /\ n < Len(sections[info].entries)
                  /\ e.info = sections[info].entries[n + 1].mapped
                  /\ e.info.xfrm_idx < Len(sections[xfrm].entries)
                  /\ e.xfrm = sections[xfrm].entries[e.info.xfrm_idx + 1].mapped
        /\ \A r \in SpecialEntries :
              EntryAt(r).info.kind = "None" /\ EntryAt(r).xfrm.kind = "None"

\* C1 witness: a finished file with a gimmick section whose info base index
\* is not 0, linked to a transform that is not the first.
C1_Witness ==
    /\ Constructed
    /\ \E r \in GimmickEntries :
          /\ sections[r.sec].info_idx > 0
          /\ EntryAt(r).info.xfrm_idx > 0
          /\ EntryAt(r).xfrm.kind = "Xform"
    /\ SpecialEntries # {}

\* The declared size in the section header at offset off of the window.
DeclaredSize(off) == u32(SliceFrom(data, off + 4))

\* Offset (in the window) of the n-th section header met when walking by
\* declared size from the byte right after the file header.
RECURSIVE HeaderOffset(_)
HeaderOffset(n) ==
    IF n = 1 THEN 0
    ELSE HeaderOffset(n - 1) + DeclaredSize(HeaderOffset(n - 1))

\* C2: the walker starts right after the 32-byte file header, builds one
\* Section per header and advances by its declared size: the k-th Section
\* is the one whose header lies at 32 plus the sum of the declared sizes of
\* the k-1 before it, every header it decodes lies before
\* declaredTotalSize - 32 (counted from the end of the file header), and
\* once the walk is over the next offset has reached that limit, so there
\* are as many Sections as headers on the walk.
C2_SectionWalk ==
    /\ Len(walked) = Len(sections)
    /\ \A k \in 1..Len(sections) :
          /\ 32 + walked[k] = 32 + HeaderOffset(k)
          /\ HeaderOffset(k) < file_size - 32
          /\ sections[k].magic = Slice(data, HeaderOffset(k), HeaderOffset(k) + 4)
          /\ sections[k].size = DeclaredSize(HeaderOffset(k))
    /\ pc \in {"resolve", "debug", "done"} =>
          /\ start = HeaderOffset(Len(sections) + 1)
          /\ start >= file_size - 32

\* C2 witness: a finished walk over six sections of several sizes.
C2_Witness ==
    /\ pc = "resolve"
    /\ Len(sections) = 6
    /\ \E j, k \in 1..Len(sections) : sections[j].size # sections[k].size

\* b comes after a in the enumeration order of the resolve loop.
After(a, b) == a.sec < b.sec \/ (a.sec = b.sec /\ a.pos < b.pos)

\* The key an Entry is indexed under in gimmick_map: the hash id of its
\* Info (modern), its resolved string-table name (legacy).
NameKey(r) ==
    IF xc3 THEN IntKey(EntryAt(r).info.hash_id)
    ELSE read(strings, EntryAt(r).info.name_id)

BdatKey(r) == IntKey(EntryAt(r).info.bdat_id)

\* The last Entry, in enumeration order, with the key of r under K.
LastWith(K(_), r) ==
    CHOOSE q \in GimmickEntries :
        /\ KeyEq(K(q), K(r))
        /\ \A t \in GimmickEntries : KeyEq(K(t), K(r)) => ~After(q, t)

\* Legacy format: bdat_gimmick returns nothing.
NoBdatIndex ==
    /\ gimmick_bdat_map = <<>>
    /\ \A n \in QueryInts : bdat_gimmick(IntKey(n)).kind = "None"

\* C3 as stated: after construction every Entry of every non-special section
\* is returned by gimmick(hash id of its Info) and bdat_gimmick(numeric id
\* of its Info) in the modern format, and by gimmick(its resolved name) in
\* the legacy format, where bdat_gimmick returns nothing.
C3_EveryEntryRetrievable ==
    Constructed =>
        IF xc3
        THEN \A r \in GimmickEntries :
                gimmick(NameKey(r)) = r /\ bdat_gimmick(BdatKey(r)) = r
        ELSE /\ \A r \in GimmickEntries : gimmick(NameKey(r)) = r
             /\ NoBdatIndex

\* C3 amended: the lookups return, for the key of an Entry, the last Entry in
\* enumeration order that has this key: the Entry itself unless a later one
\* shares its hash id (numeric id, name).
C3_LastEntryRetrievable ==
    Constructed =>
        IF xc3
        THEN \A r \in GimmickEntries :
                /\ gimmick(NameKey(r)) = LastWith(NameKey, r)
                /\ bdat_gimmick(BdatKey(r)) = LastWith(BdatKey, r)
        ELSE /\ \A r \in GimmickEntries :
                gimmick(NameKey(r)) = LastWith(NameKey, r)
             /\ NoBdatIndex

\* C3 witness: a finished modern file in which two Entries share a hash id
\* and a third key is held by one Entry alone.
C3_Witness ==
    /\ Constructed
    /\ xc3
    /\ \E q, r \in GimmickEntries :
          /\ After(q, r)
          /\ KeyEq(NameKey(q), NameKey(r))
          /\ gimmick(NameKey(q)) = r
    /\ \E r \in GimmickEntries : LastWith(BdatKey, r) = r

\* Field at offset off of Debug record k (0-based), read from the file.
DebiCount == u32(SliceFrom(data, walked[debi] + 12))
DebiEntrySize == u32(SliceFrom(data, walked[debi] + 16))
DebugField(k, off) ==
    u32(SliceFrom(Slice(data, walked[debi] + 32 + k * DebiEntrySize,
                        walked[debi] + 32 + (k + 1) * DebiEntrySize), off))

\* The Debug records whose gimmickId is the hash id Entry r is indexed under.
DebugRecordsOf(r) ==
    IF debi = 0 THEN {}
    ELSE {k \in 0..(DebiCount - 1) : gimmick(IntKey(DebugField(k, 0))) = r}

\* C4 as stated: for every Debug record whose gimmickId is the hash id an
\* Entry is indexed under, that Entry's name is the string at the record's
\* stringId; an Entry no record matches has no name; in the legacy format
\* the names are the string-table names.
C4_EveryDebugRecordNames ==
    Constructed =>
        IF xc3
        THEN \A r \in GimmickEntries :
                /\ \A k \in DebugRecordsOf(r) :
                      EntryAt(r).name = read(strings, DebugField(k, 8))
                /\ DebugRecordsOf(r) = {} => EntryAt(r).name.kind = "None"
        ELSE \A r \in GimmickEntries :
                EntryAt(r).name = read(strings, EntryAt(r).info.name_id)

\* The largest element of a non-empty set of numbers.
Largest(S) == CHOOSE n \in S : \A m \in S : m <= n

\* The state part of C4 amended.
C4_Names ==
    Constructed =>
        IF xc3
        THEN \A r \in GimmickEntries :
                IF DebugRecordsOf(r) = {}
                THEN EntryAt(r).name.kind = "None"
                ELSE EntryAt(r).name =
                        read(strings, DebugField(Largest(DebugRecordsOf(r)), 8))
        ELSE \A r \in GimmickEntries :
                EntryAt(r).name = read(strings, EntryAt(r).info.name_id)

\* The overlay is at a Debug record whose gimmickId is no indexed hash id.
AtUnmatchedDebugRecord ==
    /\ pc = "debug" /\ xc3 /\ debi # 0
    /\ di < DebiCount
    /\ gimmick(IntKey(DebugField(di, 0))).kind = "None"

\* C4 amended: the name of an Entry indexed under a hash id is the string at
\* the stringId of the LAST Debug record (in DEBI order) with that
\* gimmickId; an Entry no record matches has no name; a record that matches
\* no indexed hash id is stepped over without an error and without a change
\* to any Entry; in the legacy format the names stay the string-table names.
C4_LastDebugRecordNames ==
    /\ []C4_Names
    /\ [][AtUnmatchedDebugRecord =>
            pc' = "debug" /\ di' = di + 1 /\ sections' = sections]_vars

\* C4 witness: a finished modern file where two Debug records with different
\* strings match one Entry, which bears the string of the later one.
C4_Witness ==
    /\ Constructed
    /\ xc3
    /\ \E r \in GimmickEntries : \E j, k \in DebugRecordsOf(r) :
          /\ j < k
          /\ read(strings, DebugField(j, 8)) # read(strings, DebugField(k, 8))
          /\ EntryAt(r).name = read(strings, DebugField(k, 8))

\* No Section of the walk has magic m.
Missing(m) == \A k \in 1..Len(sections) : sections[k].magic # m

\* C5: when the walk is over, construction fails (StopIteration) exactly
\* when the section list has no INFO, no XFRM or no STRG section; a missing
\* DEBI section alone is no error.
C5_RequiredSections ==
    [][(pc = "walk" /\ start >= file_size - 32 /\ pc' # "walk") =>
          IF Missing(INFO) \/ Missing(XFRM) \/ Missing(STRG)
          THEN pc' = "error" /\ exc' = "StopIteration"
          ELSE pc' = "resolve"]_vars

\* C5 witness: construction has failed for a file that has INFO, XFRM and
\* DEBI sections and no STRG section.
C5_Witness ==
    /\ pc = "error" /\ exc = "StopIteration"
    /\ ~Missing(INFO) /\ ~Missing(XFRM) /\ ~Missing(DEBI) /\ Missing(STRG)

\* The decoder the registry is to return for magic m.
ExpectedMapper(m) ==
    IF m = INFO THEN (IF version >= 5 THEN "Info" ELSE "InfoLegacy")
    ELSE IF m = XFRM THEN "Xform"
    ELSE IF m = DEBI THEN "Debug"
    ELSE IF m = STRG THEN "Strings"
    ELSE IF <<m, version >= 5>> \in DOMAIN ext THEN ext[<<m, version >= 5>>]
    ELSE "Default"

\* The kind of payload a decoder builds.
PayloadKind(mapper) ==
    IF mapper \in {"Info", "InfoLegacy", "Xform", "Debug", "Strings", "Default"}
    THEN mapper
    ELSE "Ext"

\* C6: every Section is decoded by the decoder of its magic: INFO by Info
\* when the header version is >= 5 and by InfoLegacy otherwise, XFRM by
\* Xform, DEBI by Debug, STRG by Strings whatever the extensions registered,
\* any other magic by the extension decoder registered for (magic, flag) if
\* there is one and by Default otherwise.
C6_Mappers ==
    \A k \in 1..Len(sections) :
        /\ sections[k].mapper = ExpectedMapper(sections[k].magic)
        /\ \A p \in 1..Len(sections[k].entries) :
              sections[k].entries[p].mapped.kind = PayloadKind(sections[k].mapper)

\* C6 witness: a finished modern file, decoded with extensions registered
\* for built-in magics, whose INFO section went to Info and whose gimmick
\* section went to Default.
C6_Witness ==
    /\ Constructed
    /\ version >= 5
    /\ <<INFO, TRUE>> \in DOMAIN ext
    /\ sections[info].mapper = "Info"
    /\ Len(sections[info].entries) > 0
    /\ \E k \in self_sections : sections[k].mapper = "Default"

\* The resolve loop is at an Entry of a non-special section.
AtGimmickEntry ==
    /\ pc = "resolve"
    /\ si <= Len(sections)
    /\ sections[si].magic \notin SPECIAL_MAGIC
    /\ ei < Len(sections[si].entries)

\* Its info index, or the transform index of the Info it selects, lies
\* past the end of the INFO (XFRM) entries.
InfoIndexOutOfRange ==
    sections[si].info_idx + ei >= Len(sections[info].entries)

XfrmIndexOutOfRange ==
    /\ ~InfoIndexOutOfRange
    /\ sections[info].entries[sections[si].info_idx + ei + 1].mapped.xfrm_idx
          >= Len(sections[xfrm].entries)

\* Every back-link of the finished Lvb was resolved within bounds.
LinksInRange ==
    Constructed =>
        \A r \in GimmickEntries :
            /\ sections[r.sec].info_idx + r.pos < Len(sections[info].entries)
            /\ EntryAt(r).info.kind # "None"
            /\ EntryAt(r).info.xfrm_idx < Len(sections[xfrm].entries)
            /\ EntryAt(r).xfrm.kind = "Xform"

\* C7: an info index >= the number of INFO entries, or a transform index >=
\* the number of XFRM entries, makes construction fail with an error
\* (IndexError) and leaves the link unset: it is never resolved to another
\* entry by truncation or wrap-around, and no Lvb with such a link exists.
C7_OutOfRangeFails ==
    /\ []LinksInRange
    /\ [][(AtGimmickEntry /\ (InfoIndexOutOfRange \/ XfrmIndexOutOfRange)) =>
            /\ pc' = "error" /\ exc' = "IndexError"
            /\ sections'[si].entries[ei + 1].xfrm.kind = "None"
            /\ InfoIndexOutOfRange =>
                  sections'[si].entries[ei + 1].info.kind = "None"]_vars

\* C7 witness: construction has failed with IndexError at a transform index
\* past the end of the XFRM entries (the Info link was set, the transform
\* link was not).
C7_Witness ==
    /\ pc = "error" /\ exc = "IndexError"
    /\ si <= Len(sections)
    /\ ei < Len(sections[si].entries)
    /\ sections[si].entries[ei + 1].info.kind # "None"
    /\ sections[si].entries[ei + 1].info.xfrm_idx >= Len(sections[xfrm].entries)
    /\ sections[si].entries[ei + 1].xfrm.kind = "None"

\* C8 as stated: a string-table read that fails (offset outside the blob, no
\* terminator, invalid UTF-8) does not abort the decode: construction never
\* ends with the error of a string read.
C8_StringFailureDoesNotAbort ==
    ~(pc = "error" /\ exc \in {"ValueError", "UnicodeDecodeError"})

\* The window holds only 32-byte section headers of special magics that
\* declare a size of 32 and entryCount = 0, up to the declared total size.
HeaderOnlyWindow ==
    /\ pc # "start"
    /\ Len(data) = file_size - 32
    /\ Len(data) % 32 = 0
    /\ \A k \in 0..((Len(data) \div 32) - 1) :
          /\ Slice(data, 32 * k, 32 * k + 4) \in SPECIAL_MAGIC
          /\ u32(SliceFrom(data, 32 * k + 4)) = 32
          /\ u32(SliceFrom(data, 32 * k + 12)) = 0

\* Some header of the window has magic m.
HasHeader(m) ==
    \E k \in 0..((Len(data) \div 32) - 1) : Slice(data, 32 * k, 32 * k + 4) = m

\* The decoded Lvb has no gimmick entries and empty lookup indices.
EmptyContainer ==
    /\ GimmickEntries = {}
    /\ self_sections = {}
    /\ gimmick_map = <<>>
    /\ gimmick_bdat_map = <<>>

\* C9 as stated: the decode of a 96-byte header-only buffer (declared total
\* size 96, only 32-byte section headers with entryCount = 0) ends without
\* an error, in a Container with no gimmick entries and empty indices.
C9_HeaderOnly96 ==
    (HeaderOnlyWindow /\ file_size = 96) =>
        /\ pc # "error"
        /\ Constructed => EmptyContainer

\* C9 amended: the decode of a 160-byte header-only buffer (declared total
\* size 160, four 32-byte section headers with entryCount = 0, one of each
\* of INFO, XFRM, DEBI and STRG) ends without an error, in a Container with
\* no gimmick entries and empty indices.
C9_HeaderOnly160 ==
    (/\ HeaderOnlyWindow /\ file_size = 160
     /\ \A m \in SPECIAL_MAGIC : HasHeader(m)) =>
        /\ pc # "error"
        /\ Constructed => EmptyContainer
        /\ result.kind # "None" => result.value.kind = "None"

\* C9 witness: such a 160-byte buffer has been decoded.
C9_Witness ==
    /\ HeaderOnlyWindow /\ file_size = 160
    /\ \A m \in SPECIAL_MAGIC : HasHeader(m)
    /\ Constructed
    /\ Len(sections) = 4

\* C10 as stated: the offset of the section walk strictly increases at each
\* step of the walk, also when a section header declares a size of 0.
C10_WalkOffsetIncreases ==
    [][(pc = "walk" /\ pc' = "walk") => start' > start]_vars

===========================================================================
